---- MODULE Spec2Model ----
(***************************************************************************)
(* EcsDeploySampleStack (lib/ecs-deploy-sample-stack.ts).                  *)
(*                                                                         *)
(* The stack's constructor is a straight-line program: every statement     *)
(* either creates a construct in the stack's scope, or calls a method on   *)
(* a construct created earlier (an ingress rule, a listener target, a      *)
(* container, a port mapping, a target-group attachment).  The model runs  *)
(* that program one statement at a time and keeps what it declares: the    *)
(* constructs in declaration order, the constructs each one references,    *)
(* the deferred attributes each one consumes, and the ingress rules.       *)
(*                                                                         *)
(* The repository holds no code that orders or creates the declared        *)
(* resources (aws-cdk-lib and the provider do that).  The second half of   *)
(* the module is that environment as spec.md sections 4.1 and 4.2 state    *)
(* it: topologicalOrder over the declared graph and a walk that resolves   *)
(* deferred attributes, creates each resource and records its outputs.     *)
(* Rules that aws-cdk-lib derives on its own from `open: true` (line 112)  *)
(* and from the target-group attachment (line 188) are library behaviour   *)
(* and are not modelled.                                                   *)
(***************************************************************************)
EXTENDS Naturals, Sequences, FiniteSets, TLC

VARIABLES pc, declared, dependsOn, config, generate, ingress, portMappings,
          phase, failure, order, created, outputs, resolved, generations,
          observed, lookups

vars == <<pc, declared, dependsOn, config, generate, ingress, portMappings,
          phase, failure, order, created, outputs, resolved, generations,
          observed, lookups>>

declVars == <<declared, dependsOn, config, generate, ingress, portMappings>>
synthVars == <<order, created, outputs, resolved, generations, observed, lookups>>

(***************************************************************************)
(* Bounds of the model.                                                    *)
(***************************************************************************)
\* how many distinct passwords the provider may choose from
MaxPasswords == 3
\* how many further reads of a deferred attribute a run may make
MaxLookups == 2

(***************************************************************************)
(* Literals of the stack.                                                  *)
(***************************************************************************)
HttpPort == 80
AppPort == 3000
PostgresPort == 5432
ContainerPort == 3000
HostPort == 3000

AnyIpv4 == "0.0.0.0/0"

Ids == {"VPC", "SecurityGroupELB", "SecurityGroupAPP", "SecurityGroupRDS",
        "databaseCredentialSecret", "postgresql", "ALB", "Listener",
        "TargetGroup", "DockerImageAsset", "Repository", "ECRDeployment",
        "Cluster", "DefaultAutoScalingGroup", "TaskDefinition", "Container",
        "Service"}

NoRule == [from |-> "", to |-> "", port |-> 0]
NoGen == [key |-> "", literals |-> {}]
NoPorts == [hostPort |-> 0, containerPort |-> 0]

\* A deferred attribute: config key `key` of the consumer holds field `field`
\* of construct `source`, known only once `source` exists at the provider.
Deferred(key, source, field) == [key |-> key, source |-> source, field |-> field]

\* One statement of the constructor.
Stmt(op, id, refs, attrs, rule, gen, ports) ==
    [op |-> op, id |-> id, refs |-> refs, attrs |-> attrs,
     rule |-> rule, gen |-> gen, ports |-> ports]

New(id, refs, attrs) == Stmt("new", id, refs, attrs, NoRule, NoGen, NoPorts)
Child(id, parent, refs, attrs) ==
    Stmt("child", id, {parent} \cup refs, attrs, NoRule, NoGen, NoPorts)
Ingress(id, peer, port) ==
    Stmt("ingress", id, {peer} \cap Ids, {},
         [from |-> peer, to |-> id, port |-> port], NoGen, NoPorts)
Reference(id, refs) == Stmt("reference", id, refs, {}, NoRule, NoGen, NoPorts)

(***************************************************************************)
(* The peers of the three ingress rules.                                   *)
(***************************************************************************)
ElbIngressPeer == AnyIpv4

AppIngressPeer == "SecurityGroupELB"

\* variant: the database group opened to the load-balancer group
RdsIngressPeer_Elb == "SecurityGroupELB"

RdsIngressPeer == "SecurityGroupAPP"

\* lines 20-68: the VPC and the three security groups with their rules
NetworkBlock ==
    << New("VPC", {}, {}),
       New("SecurityGroupELB", {"VPC"}, {}),
       Ingress("SecurityGroupELB", ElbIngressPeer, HttpPort),
       New("SecurityGroupAPP", {"VPC"}, {}),
       Ingress("SecurityGroupAPP", AppIngressPeer, AppPort),
       New("SecurityGroupRDS", {"VPC"}, {}),
       Ingress("SecurityGroupRDS", RdsIngressPeer, PostgresPort) >>

\* lines 73-80: the secret's template holds the literal username; the
\* provider generates the string stored under generateStringKey
SecretGeneration == [key |-> "password", literals |-> {"username"}]

\* lines 94-99: rds.Credentials.fromPassword(username, password), both read
\* from databaseCredentialSecret
PostgresqlCredentials ==
    { Deferred("username", "databaseCredentialSecret", "username"),
      Deferred("password", "databaseCredentialSecret", "password") }

\* lines 71-100: the secret and the database instance
DatabaseBlock ==
    << Stmt("new", "databaseCredentialSecret", {}, {}, NoRule,
            SecretGeneration, NoPorts),
       New("postgresql", {"VPC", "SecurityGroupRDS"}, PostgresqlCredentials) >>

\* lines 103-113: the load balancer and its listener
LoadBalancerBlock ==
    << New("ALB", {"VPC", "SecurityGroupELB"}, {}),
       Child("Listener", "ALB", {}, {}) >>

\* lines 116-121
TargetGroupBlock == << New("TargetGroup", {"VPC"}, {}) >>

\* lines 123-125: listener.addTargetGroups
ListenerTargetsBlock == << Reference("Listener", {"TargetGroup"}) >>

\* lines 128-142: the image asset, the repository and the image deployment
RegistryBlock ==
    << New("DockerImageAsset", {}, {}),
       New("Repository", {}, {}),
       New("ECRDeployment", {},
           { Deferred("src", "DockerImageAsset", "imageUri"),
             Deferred("dest", "Repository", "repositoryUri") }) >>

\* lines 145-154: the cluster and its capacity
ClusterBlock ==
    << New("Cluster", {"VPC"}, {}),
       Child("DefaultAutoScalingGroup", "Cluster", {}, {}) >>

\* variant: line 172 written with the key of line 171
ContainerEnvironment_CopiedKey ==
    { Deferred("DB_HOST", "postgresql", "hostname"),
      Deferred("DB_PORT", "postgresql", "port"),
      Deferred("DB_USER", "databaseCredentialSecret", "username"),
      Deferred("APP_DATABASE_PASSWORD", "databaseCredentialSecret", "username") }

\* lines 167-173: the container's environment (DB_NAME is a literal)
ContainerEnvironment ==
    { Deferred("DB_HOST", "postgresql", "hostname"),
      Deferred("DB_PORT", "postgresql", "port"),
      Deferred("DB_USER", "databaseCredentialSecret", "username"),
      Deferred("APP_DATABASE_PASSWORD", "databaseCredentialSecret", "password") }

\* lines 158-180: the task definition, its container and the port mapping
TaskBlock ==
    << New("TaskDefinition", {}, {}),
       Child("Container", "TaskDefinition", {"Repository"}, ContainerEnvironment),
       Stmt("ports", "Container", {}, {}, NoRule, NoGen,
            [hostPort |-> HostPort, containerPort |-> ContainerPort]) >>

\* lines 183-188: the service and its attachment to the target group
ServiceBlock ==
    << New("Service", {"Cluster", "TaskDefinition", "SecurityGroupAPP"}, {}),
       Reference("Service", {"TargetGroup"}) >>

\* variant: the load balancer and its listener declared after the service
Program_AlbAfterService ==
    NetworkBlock \o DatabaseBlock \o TargetGroupBlock \o RegistryBlock
    \o ClusterBlock \o TaskBlock \o ServiceBlock \o LoadBalancerBlock
    \o ListenerTargetsBlock

\* lines 16-189: the constructor's statements in source order
Program ==
    NetworkBlock \o DatabaseBlock \o LoadBalancerBlock \o TargetGroupBlock
    \o ListenerTargetsBlock \o RegistryBlock \o ClusterBlock \o TaskBlock
    \o ServiceBlock

Range(s) == {s[i] : i \in 1..Len(s)}

Min(S) == CHOOSE m \in S : \A n \in S : m <= n

(***************************************************************************)
(* The constructor.                                                        *)
(***************************************************************************)
Init ==
    /\ pc = 1
    /\ declared = << >>
    /\ dependsOn = [i \in Ids |-> {}]
    /\ config = [i \in Ids |-> {}]
    /\ generate = [i \in Ids |-> NoGen]
    /\ ingress = {}
    /\ portMappings = {}
    /\ phase = "construct"
    /\ failure = ""
    /\ order = << >>
    /\ created = << >>
    /\ outputs = {}
    /\ resolved = {}
    /\ generations = 0
    /\ observed = {}
    /\ lookups = 0

AtStatement(op) ==
    /\ phase = "construct"
    /\ pc <= Len(Program)
    /\ Program[pc].op = op

\* A statement reads only consts initialised by earlier statements; reading
\* a const before its declaration throws and ends the constructor.
Readable(st) ==
    /\ st.refs \subseteq Range(declared)
    /\ \A a \in st.attrs : a.source \in Range(declared)

Throw ==
    /\ phase' = "threw"
    /\ UNCHANGED <<pc, declVars, failure, synthVars>>

Declare(st) ==
    /\ declared' = Append(declared, st.id)
    /\ dependsOn' = [dependsOn EXCEPT ![st.id] = st.refs]
    /\ config' = [config EXCEPT ![st.id] = st.attrs]
    /\ generate' = [generate EXCEPT ![st.id] = st.gen]
    /\ pc' = pc + 1
    /\ UNCHANGED <<ingress, portMappings, phase, failure, synthVars>>

\* new X(this, id, props): a construct id is unique within the stack's scope
NewConstruct ==
    /\ AtStatement("new")
    /\ LET st == Program[pc] IN
       IF Readable(st) /\ st.id \notin Range(declared)
       THEN Declare(st)
       ELSE Throw

\* alb.addListener, cluster.addCapacity, taskDefinition.addContainer: a
\* method of an existing construct that creates a construct under it
AddChild ==
    /\ AtStatement("child")
    /\ LET st == Program[pc] IN
       IF Readable(st) /\ st.id \notin Range(declared)
       THEN Declare(st)
       ELSE Throw

\* group.addIngressRule(peer, port, description)
AddIngressRule ==
    /\ AtStatement("ingress")
    /\ LET st == Program[pc] IN
       IF Readable(st) /\ st.id \in Range(declared)
       THEN /\ ingress' = ingress \cup {st.rule}
            /\ dependsOn' = [dependsOn EXCEPT ![st.id] = @ \cup st.refs]
            /\ pc' = pc + 1
            /\ UNCHANGED <<declared, config, generate, portMappings, phase,
                           failure, synthVars>>
       ELSE Throw

\* listener.addTargetGroups, service.attachToApplicationTargetGroup: an
\* existing construct takes a reference to another
AddReference ==
    /\ AtStatement("reference")
    /\ LET st == Program[pc] IN
       IF Readable(st) /\ st.id \in Range(declared)
       THEN /\ dependsOn' = [dependsOn EXCEPT ![st.id] = @ \cup st.refs]
            /\ pc' = pc + 1
            /\ UNCHANGED <<declared, config, generate, ingress, portMappings,
                           phase, failure, synthVars>>
       ELSE Throw

\* container.addPortMappings
AddPortMappings ==
    /\ AtStatement("ports")
    /\ LET st == Program[pc] IN
       IF st.id \in Range(declared)
       THEN /\ portMappings' = portMappings \cup
                   {[id |-> st.id, hostPort |-> st.ports.hostPort,
                     containerPort |-> st.ports.containerPort]}
            /\ pc' = pc + 1
            /\ UNCHANGED <<declared, dependsOn, config, generate, ingress,
                           phase, failure, synthVars>>
       ELSE Throw

(***************************************************************************)
(* DependencyGraph (spec.md 4.1).                                          *)
(***************************************************************************)
\* explicit dependsOn edges and the source of every deferred attribute
Edges(id) == dependsOn[id] \cup {a.source : a \in config[id]}

\* Resources not yet ordered whose dependencies are all ordered are ready;
\* the one declared first is taken next.  What is left when none is ready
\* lies on or behind a cycle.
RECURSIVE Walk(_, _, _)
Walk(decl, deps, done) ==
    LET ready == {i \in 1..Len(decl) :
                     /\ decl[i] \notin Range(done)
                     /\ (deps[decl[i]] \cap Range(decl)) \subseteq Range(done)}
    IN IF ready = {} THEN done
       ELSE Walk(decl, deps, Append(done, decl[Min(ready)]))

topologicalOrder(decl, deps) ==
    LET done == Walk(decl, deps, << >>)
    IN [ok |-> Len(done) = Len(decl),
        order |-> done,
        cycle |-> Range(decl) \ Range(done)]

(***************************************************************************)
(* Synthesizer (spec.md 4.2).                                              *)
(***************************************************************************)
\* The constructor has returned: order the declared graph, or fail at build
\* time with CycleDetectedError.
Synthesize ==
    /\ phase = "construct"
    /\ pc = Len(Program) + 1
    /\ LET t == topologicalOrder(declared, [i \in Ids |-> Edges(i)]) IN
       IF t.ok
       THEN /\ order' = t.order
            /\ phase' = IF t.order = << >> THEN "done" ELSE "synth"
            /\ failure' = failure
       ELSE /\ order' = << >>
            /\ phase' = "failed"
            /\ failure' = "CycleDetectedError"
    /\ UNCHANGED <<pc, declVars, created, outputs, resolved, generations,
                   observed, lookups>>

NextResource == order[Len(created) + 1]

\* the recorded outputs that a deferred attribute names
Lookup(a) == {v \in outputs : v.src = a.source /\ v.field = a.field}

\* the outputs a resource declares: the fields its consumers read, and for a
\* secret the template's literal fields and the generated key
OutputFields(r) ==
    {a.field : a \in {b \in UNION {config[c] : c \in Range(declared)} :
                         b.source = r}}
    \cup generate[r].literals
    \cup (IF generate[r].key = "" THEN {} ELSE {generate[r].key})

\* (a) resolve every deferred attribute of the next resource, (b) create it,
\* (c) record its outputs.  A generated secret string is the provider's
\* choice, made when the secret is created.
Create ==
    /\ phase = "synth"
    /\ LET r == NextResource IN
       IF \E a \in config[r] : Lookup(a) = {}
       THEN /\ phase' = "failed"
            /\ failure' = "UnresolvedDependencyError"
            /\ UNCHANGED <<pc, declVars, synthVars>>
       ELSE \E p \in 1..MaxPasswords :
            /\ outputs' = outputs \cup
                   {[src |-> r, field |-> f,
                     n |-> IF f = generate[r].key THEN p ELSE 0] :
                        f \in OutputFields(r)}
            /\ generations' = generations
                              + (IF generate[r].key = "" THEN 0 ELSE 1)
            /\ resolved' = resolved \cup
                   {[consumer |-> r, key |-> a.key, value |-> v] :
                        <<a, v>> \in {<<b, w>> \in config[r] \X outputs :
                                         w \in Lookup(b)}}
            /\ created' = Append(created, r)
            /\ phase' = IF Len(created') = Len(order) THEN "done" ELSE "synth"
            /\ UNCHANGED <<pc, declVars, failure, order, observed, lookups>>

\* the provider rejects the create: the walk halts, what was created stays
ProviderFails ==
    /\ phase = "synth"
    /\ phase' = "failed"
    /\ failure' = "ProviderError"
    /\ UNCHANGED <<pc, declVars, synthVars>>

\* a further read of a deferred attribute whose source has been created
Read ==
    /\ phase \in {"synth", "done"}
    /\ lookups < MaxLookups
    /\ \E c \in Range(declared) : \E a \in config[c] :
          /\ Lookup(a) # {}
          /\ observed' = observed \cup
                 {[consumer |-> c, key |-> a.key, value |-> v] : v \in Lookup(a)}
    /\ lookups' = lookups + 1
    /\ UNCHANGED <<pc, declVars, phase, failure, order, created, outputs,
                   resolved, generations>>

Next ==
    \/ NewConstruct
    \/ AddChild
    \/ AddIngressRule
    \/ AddReference
    \/ AddPortMappings
    \/ Synthesize
    \/ Create
    \/ ProviderFails
    \/ Read

Spec == Init /\ [][Next]_vars

(***************************************************************************)
(* Properties.                                                             *)
(***************************************************************************)
Built == phase \in {"synth", "done", "failed"}

Last(s) == s[Len(s)]

\* the nine resources of the ordering scenario, by their ids in the stack
Nine == {"VPC", "SecurityGroupELB", "SecurityGroupAPP", "postgresql", "ALB",
         "TargetGroup", "Cluster", "TaskDefinition", "Service"}

InNine(id) == id \in Nine

NineDeclared == SelectSeq(declared, InNine)

WholeOrder == topologicalOrder(declared, [i \in Ids |-> Edges(i)])

NineOrder == topologicalOrder(NineDeclared, [i \in Ids |-> Edges(i) \cap Nine])

\* C8: once the stack is built, its resources vpc, sg-elb, sg-app, db, alb,
\* tg, cluster, taskdef, service are declared in that order, service depends
\* on exactly cluster, taskdef, tg and sg-app among them, and
\* topologicalOrder() puts vpc first and service last, both for the graph
\* of these nine and for the whole declared graph; the walk uses that order.
C8_VpcFirstServiceLast ==
    Built =>
      /\ NineDeclared = << "VPC", "SecurityGroupELB", "SecurityGroupAPP",
                           "postgresql", "ALB", "TargetGroup", "Cluster",
                           "TaskDefinition", "Service" >>
      /\ Edges("Service") \cap Nine =
            {"Cluster", "TaskDefinition", "TargetGroup", "SecurityGroupAPP"}
      /\ NineOrder.ok
      /\ Head(NineOrder.order) = "VPC"
      /\ Last(NineOrder.order) = "Service"
      /\ WholeOrder.ok
      /\ Head(WholeOrder.order) = "VPC"
      /\ Last(WholeOrder.order) = "Service"
      /\ order = WholeOrder.order

\* the walk has created every declared resource in the computed order
C8_Witness ==
    /\ phase = "done"
    /\ created = order
    /\ Len(created) = Cardinality(Ids)

SecretPassword ==
    {v \in outputs : v.src = "databaseCredentialSecret" /\ v.field = "password"}

\* the two places that read the password: the database's credentials and
\* the container's environment
IsPasswordRead(x) ==
    \/ x.consumer = "postgresql" /\ x.key = "password"
    \/ x.consumer = "Container" /\ x.key = "APP_DATABASE_PASSWORD"

\* C9: within a run the password is generated exactly once, when the secret
\* is created, and never again; the database's credentials and the
\* container's environment each receive the stored password, and every
\* further read of it returns that same value.
C9_PasswordGeneratedOnce ==
    /\ generations =
          (IF "databaseCredentialSecret" \in Range(created) THEN 1 ELSE 0)
    /\ Cardinality(SecretPassword) = generations
    /\ \A x \in resolved \cup observed :
          IsPasswordRead(x) => x.value \in SecretPassword
    /\ "postgresql" \in Range(created) =>
          \E x \in resolved : x.consumer = "postgresql" /\ x.key = "password"
    /\ "Container" \in Range(created) =>
          \E x \in resolved :
             x.consumer = "Container" /\ x.key = "APP_DATABASE_PASSWORD"

\* both consumers have been created and the password has been read again
C9_Witness ==
    /\ "postgresql" \in Range(created)
    /\ "Container" \in Range(created)
    /\ lookups >= 2
    /\ \E x \in observed : IsPasswordRead(x) /\ x.consumer = "postgresql"
    /\ \E x \in observed : IsPasswordRead(x) /\ x.consumer = "Container"

RECURSIVE Closure(_)
Closure(R) ==
    LET R2 == R \cup {<<pq[1][1], pq[2][2]>> :
                         pq \in {xy \in R \X R : xy[1][2] = xy[2][1]}}
    IN IF R2 = R THEN R ELSE Closure(R2)

Reachability == Closure({<<r.from, r.to>> : r \in ingress})

\* the trust order: external, load balancer, app, database
TrustRank(g) ==
    CASE g = AnyIpv4 -> 0
      [] g = "SecurityGroupELB" -> 1
      [] g = "SecurityGroupAPP" -> 2
      [] g = "SecurityGroupRDS" -> 3
      [] OTHER -> 4

\* C10: the ingress rules are, at every point, rules of the chain any IPv4
\* to load-balancer group on 80, load-balancer group to app group, app
\* group to database group on 5432, and in the built stack they are exactly
\* that chain with the app rule on the container's port; so the database
\* group admits only the app group, the app group only the load-balancer
\* group, every rule goes one step down the trust order and no group
\* reaches itself.
C10_IngressChain ==
    /\ \A r \in ingress :
          /\ r.to \in {"SecurityGroupELB", "SecurityGroupAPP", "SecurityGroupRDS"}
          /\ r.to = "SecurityGroupELB" => r.from = AnyIpv4 /\ r.port = 80
          /\ r.to = "SecurityGroupAPP" => r.from = "SecurityGroupELB"
          /\ r.to = "SecurityGroupRDS" =>
                r.from = "SecurityGroupAPP" /\ r.port = 5432
          /\ TrustRank(r.to) = TrustRank(r.from) + 1
    /\ \A e \in Reachability : e[1] # e[2]
    /\ Built =>
          \E m \in portMappings :
             ingress = { [from |-> AnyIpv4, to |-> "SecurityGroupELB",
                          port |-> 80],
                         [from |-> "SecurityGroupELB", to |-> "SecurityGroupAPP",
                          port |-> m.containerPort],
                         [from |-> "SecurityGroupAPP", to |-> "SecurityGroupRDS",
                          port |-> 5432] }

\* the stack is built and external traffic reaches the database group only
\* through the load-balancer and app groups
C10_Witness ==
    /\ Built
    /\ Cardinality(ingress) = 3
    /\ <<AnyIpv4, "SecurityGroupRDS">> \in Reachability

====
